---------------------------- MODULE Spec2Model ----------------------------
(***************************************************************************)
(* Rebate agreement engine of knaps-be (src/src/storage.py, SQLStorage):   *)
(* tier validation, the overlapping-agreement check and the create /       *)
(* update / delete handlers over the rebate_agreements,                    *)
(* rebate_agreement_products and rebate_tiers tables.                      *)
(*                                                                         *)
(* Modelling notes.                                                        *)
(*  - Python None is the value None (-1); tier bounds are naturals.        *)
(*  - The column the handlers call party_id is the distributor_id column   *)
(*    of db_models.RebateAgreement; the model calls it party_id.           *)
(*  - Product, category and agreement ids are serial keys, counted from 1. *)
(*  - description, calc_frequency, rate_type and approval_required are     *)
(*    copied through by the handlers and never read by them; they are left *)
(*    out of the records, as are rebate_value and rebate_unit of a tier.   *)
(*  - Requests are handled one at a time: a handler runs from the state    *)
(*    with no request in hand, and Return hands the response back.         *)
(*  - No handler writes the status column; ExpireAgreement is the change   *)
(*    of an agreement to expired made outside them.                        *)
(*  - create and update are given twice: as one step each, and step by     *)
(*    step (BeginCreate .. Commit) with the rows written so far held in    *)
(*    session, the view of the open transaction; StorageFault is a         *)
(*    statement of the transaction failing.                                *)
(*  - No handler writes rebate_claims; RecordClaim is a row stored there   *)
(*    outside them.                                                        *)
(*  - calls holds the create calls that run side by side, each with a      *)
(*    session of its own (SpecRace).                                       *)
(*  - The claim calculator and the claim lifecycle have no code under      *)
(*    src/ besides the rebate_tiers and rebate_claims tables; they are     *)
(*    given as specified (SpecClaims), with rebate_value, rebate_unit and  *)
(*    rate_type in the rows, amounts in hundredths and now as the clock.   *)
(*  - classes holds ctc_classes and its id sequence (SpecCtc); results of  *)
(*    the CTC routes are HTTP status codes.                                *)
(***************************************************************************)
EXTENDS Integers, Sequences, FiniteSets, TLC

VARIABLES
    agreements,   \* rebate_agreements: id -> row, for the ids that exist
    products,     \* rebate_agreement_products rows, by rebate_agreement_id
    tiers,        \* rebate_tiers rows, by rebate_agreement_id
    nextId,       \* the next value of the rebate_agreements id sequence
    request,      \* the request being answered, or NoRequest
    result,       \* the outcome of that request
    claims,       \* rebate_claims rows
    session,      \* the open transaction of the request: its step and its view
    calls,        \* the create calls running side by side, by caller
    classes,      \* ctc_classes: the rows by id and the id sequence
    now           \* the clock the claim dates are read from

vars == <<agreements, products, tiers, nextId, request, result, claims, session,
          calls, classes, now>>

\* The state outside the rebate agreement handlers.
Outside == <<calls, classes, now>>

---------------------------------------------------------------------------
(* Bounds of the model *)

MaxId == 2          \* agreements ever created in one run
MaxParty == 2       \* distributor ids 1..MaxParty
MaxDate == 4        \* dates 1..MaxDate
MaxSpan == 1        \* end_date - start_date of a submitted agreement is 0..MaxSpan
MaxProduct == 2     \* product ids 1..MaxProduct
MaxCategory == 1    \* category ids 1..MaxCategory
MaxVal == 2         \* tier bounds 0..MaxVal
MaxTiers == 2       \* tiers in one submitted list
MaxStoreVal == 1    \* tier bounds 0..MaxStoreVal of the agreements stored with tiers

None == -1

Vals == 0..MaxVal
OptVals == Vals \cup {None}

---------------------------------------------------------------------------
(* models.py: the request bodies *)

\* RebateTierCreate: the two (from, to) pairs; each may be None.
RebateTierCreate ==
    [rebate_agreement_uuid : {None},
     from_quantity : OptVals, to_quantity : OptVals,
     from_amount : OptVals, to_amount : OptVals]

Bases == {"quantity", "amount"}
AgreementTypes == {"vendor", "customer"}
Statuses == {"active", "expired"}

\* Python truthiness of an Optional[float]: None and 0 are falsy.
Truthy(x) == x # None /\ x # 0

\* Python `a or b`.
PyOr(a, b) == IF Truthy(a) THEN a ELSE b

---------------------------------------------------------------------------
(* storage.py: _validate_tier_ranges *)

\* key of sorted(): t.from_quantity or t.from_amount or 0
SortKey(t) == PyOr(PyOr(t.from_quantity, t.from_amount), 0)

\* s with t inserted after every element whose key is <= t's (stable).
RECURSIVE InsertByKey(_, _)
InsertByKey(s, t) ==
    IF s = <<>> THEN <<t>>
    ELSE IF SortKey(s[Len(s)]) <= SortKey(t) THEN Append(s, t)
    ELSE Append(InsertByKey(SubSeq(s, 1, Len(s) - 1), t), s[Len(s)])

\* sorted(tiers, key=...): a stable sort by SortKey.
RECURSIVE SortedTiers(_)
SortedTiers(ts) ==
    IF ts = <<>> THEN <<>>
    ELSE InsertByKey(SortedTiers(SubSeq(ts, 1, Len(ts) - 1)), ts[Len(ts)])

FromVal(t, basis) == IF basis = "quantity" THEN t.from_quantity ELSE t.from_amount
ToVal(t, basis) == IF basis = "quantity" THEN t.to_quantity ELSE t.to_amount

\* The body of the loop for index i (1-based) of the sorted list.
TierCheck(st, i, basis) ==
    LET from_val == FromVal(st[i], basis)
        to_val == ToVal(st[i], basis)
    IN  IF from_val # None /\ to_val # None /\ from_val >= to_val
        THEN "InvalidRange"
        ELSE IF i > 1 /\ ToVal(st[i - 1], basis) # None /\ from_val # None
                /\ ToVal(st[i - 1], basis) > from_val
        THEN "OverlappingTiers"
        ELSE "ok"

\* The loop from index i on: the first error raised, or "ok".
RECURSIVE TierLoop(_, _, _)
TierLoop(st, i, basis) ==
    IF i > Len(st) THEN "ok"
    ELSE LET raised == TierCheck(st, i, basis)
         IN  IF raised # "ok" THEN raised ELSE TierLoop(st, i + 1, basis)

validate_tier_ranges(ts, basis) ==
    IF ts = <<>> THEN "ok" ELSE TierLoop(SortedTiers(ts), 1, basis)

---------------------------------------------------------------------------
(* models.py: RebateAgreementCreate, and the sets the requests are drawn from *)

\* The strictly increasing sequences over 1..n: a list of distinct ids.
IdLists(n) ==
    {s \in UNION {[1..k -> 1..n] : k \in 0..n} :
        \A i \in 1..(Len(s) - 1) : s[i] < s[i + 1]}

\* The sequences over S of length at most n.
SeqsUpTo(S, n) == UNION {[1..k -> S] : k \in 0..n}

Dates == 1..MaxDate
Parties == 1..MaxParty

\* The bodies submitted with every header field varied and no tiers; an
\* end_date equal to start_date is the invalid range among them.
AgreementInputs ==
    {d \in [agreement_type : AgreementTypes, distributor_id : Parties,
            start_date : Dates, end_date : Dates, basis : {"quantity"},
            products : IdLists(MaxProduct),
            product_category_ids : IdLists(MaxCategory), tiers : {<<>>}] :
        d.end_date - d.start_date \in 0..MaxSpan}

SeqToSet(s) == {s[i] : i \in 1..Len(s)}

---------------------------------------------------------------------------
(* storage.py: _check_overlapping_agreements *)

\* [p.product_id for p in existing.products if p.product_id]
ExistingProducts(id) ==
    {products[id][i].product_id : i \in {j \in 1..Len(products[id]) :
                                            Truthy(products[id][j].product_id)}}

\* [p.category_id for p in existing.products if p.category_id]
ExistingCategories(id) ==
    {products[id][i].category_id : i \in {j \in 1..Len(products[id]) :
                                             Truthy(products[id][j].category_id)}}

\* ExistingAgreements without the status filter of the select.
ExistingAgreements_AnyStatus(data) ==
    {id \in DOMAIN agreements :
        /\ agreements[id].party_id = data.distributor_id
        /\ agreements[id].agreement_type = data.agreement_type}

\* The rows the select returns: same party, same type, status active.
ExistingAgreements(data) ==
    {id \in DOMAIN agreements :
        /\ agreements[id].party_id = data.distributor_id
        /\ agreements[id].agreement_type = data.agreement_type
        /\ agreements[id].status = "active"}

\* Overlaps with the date comparison exclusive at the start.
Overlaps_ExclusiveStart(data, id) ==
    /\ data.start_date < agreements[id].end_date
    /\ data.end_date >= agreements[id].start_date
    /\ \/ SeqToSet(data.products) \cap ExistingProducts(id) # {}
       \/ SeqToSet(data.product_category_ids) \cap ExistingCategories(id) # {}

\* The two ifs of the loop body: the date ranges overlap and the ids intersect.
Overlaps(data, id) ==
    /\ data.start_date <= agreements[id].end_date
    /\ data.end_date >= agreements[id].start_date
    /\ \/ SeqToSet(data.products) \cap ExistingProducts(id) # {}
       \/ SeqToSet(data.product_category_ids) \cap ExistingCategories(id) # {}

\* _check_overlapping_agreements that never raises.
check_overlapping_agreements_Skipped(data) == "ok"

check_overlapping_agreements(data) ==
    IF \E id \in ExistingAgreements(data) : Overlaps(data, id)
    THEN "OverlappingAgreement" ELSE "ok"

---------------------------------------------------------------------------
(* storage.py: the rows create and update write *)

\* _create_tier_from_data with every field of the tier copied as sent.
create_tier_from_data_CopyAll(tier_data, agreement_id, agreement_uuid, basis) ==
    [rebate_agreement_id |-> agreement_id,
     rebate_agreement_uuid |-> tier_data.rebate_agreement_uuid,
     from_quantity |-> tier_data.from_quantity,
     to_quantity |-> tier_data.to_quantity,
     from_amount |-> tier_data.from_amount,
     to_amount |-> tier_data.to_amount]

\* _create_tier_from_data: the pair of the basis is kept, the other is None.
create_tier_from_data(tier_data, agreement_id, agreement_uuid, basis) ==
    IF basis = "quantity"
    THEN [rebate_agreement_id |-> agreement_id,
          rebate_agreement_uuid |-> agreement_uuid,
          from_quantity |-> tier_data.from_quantity,
          to_quantity |-> tier_data.to_quantity,
          from_amount |-> None, to_amount |-> None]
    ELSE [rebate_agreement_id |-> agreement_id,
          rebate_agreement_uuid |-> agreement_uuid,
          from_quantity |-> None, to_quantity |-> None,
          from_amount |-> tier_data.from_amount,
          to_amount |-> tier_data.to_amount]

\* AssociationRows with the first category id also written on the product rows.
AssociationRows_BothSet(data) ==
    [i \in 1..Len(data.products) |->
        [product_id |-> data.products[i],
         category_id |-> IF data.product_category_ids = <<>> THEN None
                         ELSE data.product_category_ids[1]]]
    \o [i \in 1..Len(data.product_category_ids) |->
        [product_id |-> None, category_id |-> data.product_category_ids[i]]]

\* The association rows: one per product id, then one per category id.
AssociationRows(data) ==
    [i \in 1..Len(data.products) |->
        [product_id |-> data.products[i], category_id |-> None]]
    \o [i \in 1..Len(data.product_category_ids) |->
        [product_id |-> None, category_id |-> data.product_category_ids[i]]]

TierRows(data, id, uuid) ==
    [i \in 1..Len(data.tiers) |->
        create_tier_from_data(data.tiers[i], id, uuid, data.basis)]

\* ValidateInput with start_date = end_date let through.
ValidateInput_EqualDates(data) ==
    IF data.products = <<>> /\ data.product_category_ids = <<>>
    THEN "MissingAssociations"
    ELSE IF data.start_date > data.end_date THEN "DateRangeInvalid"
    ELSE IF data.tiers # <<>> THEN validate_tier_ranges(data.tiers, data.basis)
    ELSE "ok"

\* ValidateInput without the check of the associations.
ValidateInput_NoAssociations(data) ==
    IF data.start_date >= data.end_date THEN "DateRangeInvalid"
    ELSE IF data.tiers # <<>> THEN validate_tier_ranges(data.tiers, data.basis)
    ELSE "ok"

\* The checks both handlers make on the body before anything is written.
ValidateInput(data) ==
    IF data.products = <<>> /\ data.product_category_ids = <<>>
    THEN "MissingAssociations"
    ELSE IF data.start_date >= data.end_date THEN "DateRangeInvalid"
    ELSE IF data.tiers # <<>> THEN validate_tier_ranges(data.tiers, data.basis)
    ELSE "ok"

\* uuid.uuid4(): a value no other agreement has; the id stands for it.
NewUuid(id) == id

---------------------------------------------------------------------------
(* The handlers *)

NoData == <<>>
Idle == request.op = "none"

\* No transaction is open: the session of the last request was closed.
NoSession ==
    [pc |-> "closed", agreements |-> <<>>,
     products |-> [id \in 1..MaxId |-> <<>>], tiers |-> [id \in 1..MaxId |-> <<>>]]

Init ==
    /\ agreements = <<>>
    /\ products = [id \in 1..MaxId |-> <<>>]
    /\ tiers = [id \in 1..MaxId |-> <<>>]
    /\ nextId = 1
    /\ request = [op |-> "none", id |-> 0, data |-> NoData]
    /\ result = "none"
    /\ claims = {}
    /\ session = NoSession
    /\ calls = <<>>
    /\ classes = <<>>
    /\ now = 0

\* The outcome of create_rebate_agreement on the current tables.
CreateOutcome(data) ==
    LET raised == ValidateInput(data)
    IN  IF raised # "ok" THEN raised ELSE check_overlapping_agreements(data)

\* create_rebate_agreement
CreateRebateAgreement(data) ==
    /\ Idle
    /\ nextId <= MaxId
    /\ request' = [op |-> "create", id |-> nextId, data |-> data]
    /\ result' = CreateOutcome(data)
    /\ IF result' = "ok"
       THEN /\ agreements' = (nextId :> [uuid |-> NewUuid(nextId),
                                        agreement_type |-> data.agreement_type,
                                        party_id |-> data.distributor_id,
                                        start_date |-> data.start_date,
                                        end_date |-> data.end_date,
                                        basis |-> data.basis,
                                        status |-> "active"]) @@ agreements
            /\ products' = [products EXCEPT ![nextId] = AssociationRows(data)]
            /\ tiers' = [tiers EXCEPT ![nextId] = TierRows(data, nextId, NewUuid(nextId))]
            /\ nextId' = nextId + 1
       ELSE UNCHANGED <<agreements, products, tiers, nextId>>
    /\ UNCHANGED <<claims, session>>
    /\ UNCHANGED Outside

\* Update with the tier validation and the other checks of the body left out.
UpdateOutcome_Unchecked(id, data) ==
    IF id \notin DOMAIN agreements THEN "NotFound" ELSE "ok"

\* Update with the checks of the body made before the lookup.
UpdateOutcome_ValidateFirst(id, data) ==
    IF ValidateInput(data) # "ok" THEN ValidateInput(data)
    ELSE IF id \notin DOMAIN agreements THEN "NotFound" ELSE "ok"

\* The outcome of update_rebate_agreement: no overlap check is made.
UpdateOutcome(id, data) ==
    IF id \notin DOMAIN agreements THEN "NotFound" ELSE ValidateInput(data)

\* update_rebate_agreement
UpdateRebateAgreement(id, data) ==
    /\ Idle
    /\ request' = [op |-> "update", id |-> id, data |-> data]
    /\ result' = UpdateOutcome(id, data)
    /\ IF result' = "ok"
       THEN /\ agreements' = [agreements EXCEPT ![id] =
                                 [@ EXCEPT !.agreement_type = data.agreement_type,
                                           !.party_id = data.distributor_id,
                                           !.start_date = data.start_date,
                                           !.end_date = data.end_date,
                                           !.basis = data.basis]]
            /\ products' = [products EXCEPT ![id] = AssociationRows(data)]
            /\ tiers' = [tiers EXCEPT ![id] = TierRows(data, id, agreements[id].uuid)]
       ELSE UNCHANGED <<agreements, products, tiers>>
    /\ UNCHANGED <<nextId, claims, session>>
    /\ UNCHANGED Outside

\* delete_rebate_agreement with no cascade to the tiers.
DeleteRebateAgreement_NoCascade(id) ==
    /\ Idle
    /\ request' = [op |-> "delete", id |-> id, data |-> NoData]
    /\ IF id \in DOMAIN agreements
       THEN /\ result' = "ok"
            /\ agreements' = [a \in DOMAIN agreements \ {id} |-> agreements[a]]
            /\ products' = [products EXCEPT ![id] = <<>>]
            /\ UNCHANGED tiers
            /\ claims' = {c \in claims : c.rebate_agreement_id # id}
       ELSE /\ result' = "NotFound"
            /\ UNCHANGED <<agreements, products, tiers, claims>>
    /\ UNCHANGED <<nextId, session>>
    /\ UNCHANGED Outside

\* delete_rebate_agreement: the relationships (products, tiers, claims) cascade
\* to the rows the agreement owns.
DeleteRebateAgreement(id) ==
    /\ Idle
    /\ request' = [op |-> "delete", id |-> id, data |-> NoData]
    /\ IF id \in DOMAIN agreements
       THEN /\ result' = "ok"
            /\ agreements' = [a \in DOMAIN agreements \ {id} |-> agreements[a]]
            /\ products' = [products EXCEPT ![id] = <<>>]
            /\ tiers' = [tiers EXCEPT ![id] = <<>>]
            /\ claims' = {c \in claims : c.rebate_agreement_id # id}
       ELSE /\ result' = "NotFound"
            /\ UNCHANGED <<agreements, products, tiers, claims>>
    /\ UNCHANGED <<nextId, session>>
    /\ UNCHANGED Outside

\* The status column turns to expired; no handler writes it.
ExpireAgreement(id) ==
    /\ Idle
    /\ id \in DOMAIN agreements
    /\ agreements[id].status = "active"
    /\ agreements' = [agreements EXCEPT ![id].status = "expired"]
    /\ UNCHANGED <<products, tiers, nextId, request, result, claims, session>>
    /\ UNCHANGED Outside

\* The response goes back to the caller and the session closes.
Return ==
    /\ ~Idle
    /\ session.pc = "closed"
    /\ request' = [op |-> "none", id |-> 0, data |-> NoData]
    /\ result' = "none"
    /\ UNCHANGED <<agreements, products, tiers, nextId, claims, session>>
    /\ UNCHANGED Outside

Ids == 1..MaxId

\* The bodies a request can carry now: none while a request is in hand.
Arriving(bodies) == IF Idle THEN bodies ELSE {}

Next ==
    \/ \E data \in Arriving(AgreementInputs) : CreateRebateAgreement(data)
    \/ \E data \in Arriving(AgreementInputs) : \E id \in Ids :
          UpdateRebateAgreement(id, data)
    \/ \E id \in Ids : DeleteRebateAgreement(id)
    \/ \E id \in Ids : ExpireAgreement(id)
    \/ Return

Spec == Init /\ [][Next]_vars

TypeOK ==
    /\ nextId \in 1..(MaxId + 1)
    /\ DOMAIN agreements \subseteq 1..(nextId - 1)
    /\ result \in {"none", "ok", "NotFound", "MissingAssociations", "DateRangeInvalid",
                   "InvalidRange", "OverlappingTiers", "OverlappingAgreement",
                   "pending", "StorageError"}
    /\ session.pc \in {"closed", "clear", "associations", "tiers", "commit"}
    /\ Idle => session = NoSession

---------------------------------------------------------------------------
(* The overlapping-agreement check: what is asked of it *)

Stored == <<agreements, products, tiers, nextId>>

\* The product ids and the category ids of the rows stored for an agreement.
StoredProductIds(id) ==
    {products[id][i].product_id : i \in 1..Len(products[id])} \ {None}
StoredCategoryIds(id) ==
    {products[id][i].category_id : i \in 1..Len(products[id])} \ {None}

\* The category a product belongs to (products.category_name).
ProductCategory(p) == ((p - 1) % MaxCategory) + 1

\* The products a set of product ids and category ids stands for.
EffectiveProducts(pids, cids) ==
    pids \cup {p \in 1..MaxProduct : ProductCategory(p) \in cids}

\* Same party, same type, active, and the date ranges intersect (both ends
\* inclusive).
Rival(data, id) ==
    /\ agreements[id].status = "active"
    /\ agreements[id].party_id = data.distributor_id
    /\ agreements[id].agreement_type = data.agreement_type
    /\ data.start_date <= agreements[id].end_date
    /\ data.end_date >= agreements[id].start_date

\* The body passes the checks create makes before the overlap check.
PassesInputChecks(data) ==
    /\ data.products # <<>> \/ data.product_category_ids # <<>>
    /\ data.start_date < data.end_date
    /\ validate_tier_ranges(data.tiers, data.basis) = "ok"

\* A create is answered in this step.
CreateStep == Idle /\ request'.op = "create"

\* C1: no two stored active agreements of the same party and type have
\* intersecting date ranges and a common product id or category id, after any
\* sequence of create, update and delete.
C1_NoDoubleBooking ==
    \A a \in DOMAIN agreements : \A b \in DOMAIN agreements \ {a} :
        (/\ agreements[a].status = "active"
         /\ agreements[b].status = "active"
         /\ agreements[a].party_id = agreements[b].party_id
         /\ agreements[a].agreement_type = agreements[b].agreement_type
         /\ agreements[a].start_date <= agreements[b].end_date
         /\ agreements[a].end_date >= agreements[b].start_date)
        => /\ StoredProductIds(a) \cap StoredProductIds(b) = {}
           /\ StoredCategoryIds(a) \cap StoredCategoryIds(b) = {}

C4_EffectiveProductsCompared ==
    [][(/\ CreateStep
        /\ PassesInputChecks(request'.data)
        /\ \E id \in DOMAIN agreements :
              /\ Rival(request'.data, id)
              /\ EffectiveProducts(SeqToSet(request'.data.products),
                                   SeqToSet(request'.data.product_category_ids))
                    \cap EffectiveProducts(StoredProductIds(id),
                                           StoredCategoryIds(id)) # {})
       => result' = "OverlappingAgreement"]_vars

---------------------------------------------------------------------------
(* _validate_tier_ranges on its own: every tier list within the bounds *)

TierLists == SeqsUpTo(RebateTierCreate, MaxTiers)

InitValidate ==
    /\ agreements = <<>>
    /\ products = [id \in 1..MaxId |-> <<>>]
    /\ tiers = [id \in 1..MaxId |-> <<>>]
    /\ nextId = 1
    /\ request \in [op : {"validate"}, id : {0}, data : [basis : Bases, tiers : TierLists]]
    /\ result = "none"
    /\ claims = {}
    /\ session = NoSession
    /\ calls = <<>>
    /\ classes = <<>>
    /\ now = 0

\* self._validate_tier_ranges(data.tiers, data.basis)
ValidateTiers ==
    /\ request.op = "validate"
    /\ result = "none"
    /\ result' = validate_tier_ranges(request.data.tiers, request.data.basis)
    /\ UNCHANGED <<agreements, products, tiers, nextId, request, claims, session>>
    /\ UNCHANGED Outside

NextValidate == ValidateTiers

SpecValidate == InitValidate /\ [][NextValidate]_vars

\* The list validated and its basis, once the validator has answered.
Validated == request.op = "validate" /\ result # "none"
VTiers == request.data.tiers
VBasis == request.data.basis

\* The lower bound of a tier on the basis, a missing one counting as 0.
Lower(t, basis) == IF FromVal(t, basis) = None THEN 0 ELSE FromVal(t, basis)

\* The orders of 1..n in which ts is sorted by lower bound.
SortedOrders(ts, basis) ==
    {p \in [1..Len(ts) -> 1..Len(ts)] :
        /\ \A i \in 1..Len(ts) : \A j \in 1..Len(ts) : i # j => p[i] # p[j]
        /\ \A i \in 1..(Len(ts) - 1) :
              Lower(ts[p[i]], basis) <= Lower(ts[p[i + 1]], basis)}

\* from < to for every tier that has both bounds.
RangesProper(ts, basis) ==
    \A i \in 1..Len(ts) :
        (FromVal(ts[i], basis) # None /\ ToVal(ts[i], basis) # None)
            => FromVal(ts[i], basis) < ToVal(ts[i], basis)

AllLowerBoundsPresent(ts, basis) ==
    \A i \in 1..Len(ts) : FromVal(ts[i], basis) # None

\* C5: a tier list that, sorted by the lower bound of the basis, has
\* from_i < to_i for every tier with an upper bound and to_i <= from_{i+1} for
\* every adjacent pair is accepted by validate_tiers.
C5_WellFormedAccepted ==
    (/\ Validated
     /\ \E p \in SortedOrders(VTiers, VBasis) :
           /\ \A i \in 1..Len(VTiers) :
                 ToVal(VTiers[p[i]], VBasis) # None
                    => Lower(VTiers[p[i]], VBasis) < ToVal(VTiers[p[i]], VBasis)
           /\ \A i \in 1..(Len(VTiers) - 1) :
                 /\ ToVal(VTiers[p[i]], VBasis) # None
                 /\ ToVal(VTiers[p[i]], VBasis) <= Lower(VTiers[p[i + 1]], VBasis))
    => result = "ok"

\* C6: a tier list with every lower bound present and from < to in every
\* tier that, sorted by the lower bound of the basis, has an adjacent pair with
\* to_i > from_{i+1} is rejected with OverlappingTiers.
C6_OverlapRejected ==
    (/\ Validated
     /\ AllLowerBoundsPresent(VTiers, VBasis)
     /\ RangesProper(VTiers, VBasis)
     /\ \A p \in SortedOrders(VTiers, VBasis) :
           \E i \in 1..(Len(VTiers) - 1) :
              /\ ToVal(VTiers[p[i]], VBasis) # None
              /\ ToVal(VTiers[p[i]], VBasis) > Lower(VTiers[p[i + 1]], VBasis))
    => result = "OverlappingTiers"

\* C7: a tier list holding a tier whose upper bound is present and whose
\* lower bound, a missing one counting as 0, is greater than or equal to it is
\* rejected.
C7_EmptyRangeRejected ==
    (/\ Validated
     /\ \E i \in 1..Len(VTiers) :
           /\ ToVal(VTiers[i], VBasis) # None
           /\ Lower(VTiers[i], VBasis) >= ToVal(VTiers[i], VBasis))
    => result # "ok"

\* C8: a tier list in which two tiers have no lower bound, so that one of
\* them is not the lowest tier, is rejected.
C8_MissingLowerBoundRejected ==
    (/\ Validated
     /\ \E i \in 1..Len(VTiers) : \E j \in 1..Len(VTiers) :
           /\ i # j
           /\ FromVal(VTiers[i], VBasis) = None
           /\ FromVal(VTiers[j], VBasis) = None)
    => result # "ok"

---------------------------------------------------------------------------
(* The handlers on agreements with tiers: one header, every tier list *)

StoreVals == (0..MaxStoreVal) \cup {None}

\* Tiers with any bounds on the basis and any lower bound in the other pair.
StoreTierLists(basis) ==
    SeqsUpTo({t \in [rebate_agreement_uuid : {None},
                     from_quantity : StoreVals, to_quantity : StoreVals,
                     from_amount : StoreVals, to_amount : StoreVals] :
                 IF basis = "quantity" THEN t.to_amount = None
                 ELSE t.to_quantity = None}, MaxTiers)

TieredInputs ==
    UNION {[agreement_type : {"vendor"}, distributor_id : {1},
            start_date : {1}, end_date : {2}, basis : {b},
            products : {<<1>>}, product_category_ids : {<<>>},
            tiers : StoreTierLists(b)] : b \in Bases}

NextTiered ==
    \/ \E data \in Arriving(TieredInputs) : CreateRebateAgreement(data)
    \/ \E data \in Arriving(TieredInputs) : \E id \in Ids :
          UpdateRebateAgreement(id, data)
    \/ \E id \in Ids : DeleteRebateAgreement(id)
    \/ Return

SpecTiered == Init /\ [][NextTiered]_vars

\* The bounds of a stored tier on the basis of its agreement.
StoredFrom(id, i) == FromVal(tiers[id][i], agreements[id].basis)
StoredTo(id, i) == ToVal(tiers[id][i], agreements[id].basis)

\* C9: no stored agreement has a tier without upper bound below another of
\* its tiers: create and update accept an open-ended tier only as the highest.
C9_OnlyTopTierOpenEnded ==
    \A id \in DOMAIN agreements :
        \A i \in 1..Len(tiers[id]) : \A j \in 1..Len(tiers[id]) :
            (/\ StoredTo(id, i) = None
             /\ StoredFrom(id, i) # None
             /\ StoredFrom(id, j) # None)
            => ~(StoredFrom(id, i) < StoredFrom(id, j))

\* C10: the tiers stored for an agreement have from < to when both bounds are
\* there, and any two of them whose lower bounds are there cover disjoint
\* ranges, a tier without upper bound covering everything from its lower bound.
C10_StoredTiersDisjoint ==
    \A id \in DOMAIN agreements :
        /\ \A i \in 1..Len(tiers[id]) :
              (StoredFrom(id, i) # None /\ StoredTo(id, i) # None)
                 => StoredFrom(id, i) < StoredTo(id, i)
        /\ \A i \in 1..Len(tiers[id]) : \A j \in 1..Len(tiers[id]) :
              (/\ i # j
               /\ StoredFrom(id, i) # None
               /\ StoredFrom(id, j) # None
               /\ StoredFrom(id, i) <= StoredFrom(id, j))
              => (StoredTo(id, i) # None /\ StoredTo(id, i) <= StoredFrom(id, j))

---------------------------------------------------------------------------
(* The handlers step by step: the transaction of a request and what the     *)
(* other requests can see of it                                             *)

MaxTxnProduct == 1     \* product ids 1..MaxTxnProduct of these requests

\* A rebate_agreement_uuid sent in a tier: the uuid of no agreement.
ForeignUuid == 0

\* Tiers with a few bounds on the basis, a lower bound in the other pair and
\* a rebate_agreement_uuid of their own.
TxnTiers(basis) ==
    {t \in [rebate_agreement_uuid : {ForeignUuid},
            from_quantity : 0..MaxStoreVal, to_quantity : (1..MaxStoreVal) \cup {None},
            from_amount : 0..MaxStoreVal, to_amount : (1..MaxStoreVal) \cup {None}] :
        IF basis = "quantity" THEN t.from_amount = MaxStoreVal /\ t.to_amount = None
        ELSE t.from_quantity = MaxStoreVal /\ t.to_quantity = None}

\* The bodies of these requests: the header varied without tiers, and the
\* tiers varied under one header.
TxnInputs ==
    [agreement_type : {"vendor"}, distributor_id : {1},
     start_date : {1, 2}, end_date : {2}, basis : {"quantity"},
     products : IdLists(MaxTxnProduct),
     product_category_ids : IdLists(MaxCategory), tiers : {<<>>}]
    \cup UNION {[agreement_type : {"vendor"}, distributor_id : {1},
                 start_date : {1}, end_date : {2}, basis : {b},
                 products : {<<1>>}, product_category_ids : {<<>>},
                 tiers : SeqsUpTo(TxnTiers(b), MaxTiers)] : b \in Bases}

\* RebateAgreement(**agreement_data) with the uuid generated for it.
AgreementRow(id, data) ==
    [uuid |-> NewUuid(id), agreement_type |-> data.agreement_type,
     party_id |-> data.distributor_id, start_date |-> data.start_date,
     end_date |-> data.end_date, basis |-> data.basis, status |-> "active"]

\* create_rebate_agreement up to session.flush(): the checks, then the
\* agreement row is inserted in the transaction and takes the next id.
BeginCreate(data) ==
    /\ Idle
    /\ nextId <= MaxId
    /\ request' = [op |-> "create", id |-> nextId, data |-> data]
    /\ LET raised == CreateOutcome(data)
       IN  IF raised # "ok"
           THEN /\ result' = raised
                /\ UNCHANGED <<nextId, session>>
           ELSE /\ result' = "pending"
                /\ nextId' = nextId + 1
                /\ session' = [pc |-> "associations",
                               agreements |-> (nextId :> AgreementRow(nextId, data))
                                                 @@ agreements,
                               products |-> products, tiers |-> tiers]
    /\ UNCHANGED <<agreements, products, tiers, claims>>
    /\ UNCHANGED Outside

\* update_rebate_agreement up to the setattr loop: the lookup, the checks,
\* then the fields of the row are overwritten in the transaction.
BeginUpdate(id, data) ==
    /\ Idle
    /\ request' = [op |-> "update", id |-> id, data |-> data]
    /\ LET raised == UpdateOutcome(id, data)
       IN  IF raised # "ok"
           THEN /\ result' = raised
                /\ UNCHANGED session
           ELSE /\ result' = "pending"
                /\ session' = [pc |-> "clear",
                               agreements |->
                                   [agreements EXCEPT ![id] =
                                       [@ EXCEPT !.agreement_type = data.agreement_type,
                                                 !.party_id = data.distributor_id,
                                                 !.start_date = data.start_date,
                                                 !.end_date = data.end_date,
                                                 !.basis = data.basis]],
                               products |-> products, tiers |-> tiers]
    /\ UNCHANGED <<agreements, products, tiers, nextId, claims>>
    /\ UNCHANGED Outside

\* ClearRows without the two DELETE statements.
ClearRows_KeepRows ==
    /\ session.pc = "clear"
    /\ session' = [session EXCEPT !.pc = "associations"]
    /\ UNCHANGED <<agreements, products, tiers, nextId, request, result, claims>>
    /\ UNCHANGED Outside

\* update: DELETE FROM rebate_agreement_products / rebate_tiers WHERE
\* rebate_agreement_id = :id, in the transaction.
ClearRows ==
    /\ session.pc = "clear"
    /\ session' = [session EXCEPT !.pc = "associations",
                                  !.products[request.id] = <<>>,
                                  !.tiers[request.id] = <<>>]
    /\ UNCHANGED <<agreements, products, tiers, nextId, request, result, claims>>
    /\ UNCHANGED Outside

\* The two loops that add the association rows to the session.
AddAssociations ==
    /\ session.pc = "associations"
    /\ session' = [session EXCEPT !.pc = "tiers",
                                  !.products[request.id] =
                                      @ \o AssociationRows(request.data)]
    /\ UNCHANGED <<agreements, products, tiers, nextId, request, result, claims>>
    /\ UNCHANGED Outside

\* The loop that adds the tier rows to the session.
AddTiers ==
    /\ session.pc = "tiers"
    /\ session' = [session EXCEPT !.pc = "commit",
                                  !.tiers[request.id] =
                                      @ \o TierRows(request.data, request.id,
                                                    session.agreements[request.id].uuid)]
    /\ UNCHANGED <<agreements, products, tiers, nextId, request, result, claims>>
    /\ UNCHANGED Outside

\* session.commit(): what the transaction wrote becomes the stored rows.
Commit ==
    /\ session.pc = "commit"
    /\ agreements' = session.agreements
    /\ products' = session.products
    /\ tiers' = session.tiers
    /\ result' = "ok"
    /\ session' = NoSession
    /\ UNCHANGED <<nextId, request, claims>>
    /\ UNCHANGED Outside

\* What is stored once the session of a failed request is closed, had
\* the rows been written outside a transaction.
RolledBack_Autocommit ==
    [agreements |-> session.agreements, products |-> session.products,
     tiers |-> session.tiers]

\* What is stored once the session of a failed request is closed: the
\* transaction is rolled back.
RolledBack ==
    [agreements |-> agreements, products |-> products, tiers |-> tiers]

\* A statement of the transaction fails (connection lost, constraint
\* violated): the exception leaves the `async with` block, which closes
\* the session.
StorageFault ==
    /\ session.pc # "closed"
    /\ result' = "StorageError"
    /\ agreements' = RolledBack.agreements
    /\ products' = RolledBack.products
    /\ tiers' = RolledBack.tiers
    /\ session' = NoSession
    /\ UNCHANGED <<nextId, request, claims>>
    /\ UNCHANGED Outside

\* get_rebate_agreement
GetRebateAgreement(id) ==
    /\ Idle
    /\ request' = [op |-> "get", id |-> id, data |-> NoData]
    /\ result' = IF id \in DOMAIN agreements THEN "ok" ELSE "NotFound"
    /\ UNCHANGED <<agreements, products, tiers, nextId, claims, session>>
    /\ UNCHANGED Outside

\* A rebate_claims row is recorded for a product under a stored agreement;
\* no handler of the storage writes that table.
RecordClaim(id, product_id) ==
    /\ Idle
    /\ id \in DOMAIN agreements
    /\ [rebate_agreement_id |-> id, product_id |-> product_id] \notin claims
    /\ claims' = claims \cup {[rebate_agreement_id |-> id, product_id |-> product_id]}
    /\ UNCHANGED <<agreements, products, tiers, nextId, request, result, session>>
    /\ UNCHANGED Outside

NextTxn ==
    \/ \E data \in Arriving(TxnInputs) : BeginCreate(data)
    \/ \E data \in Arriving(TxnInputs) : \E id \in Ids : BeginUpdate(id, data)
    \/ ClearRows
    \/ AddAssociations
    \/ AddTiers
    \/ Commit
    \/ StorageFault
    \/ \E id \in Ids : GetRebateAgreement(id)
    \/ \E id \in Ids : DeleteRebateAgreement(id)
    \/ \E id \in Ids : \E p \in 1..MaxTxnProduct : RecordClaim(id, p)
    \/ Return

SpecTxn == Init /\ [][NextTxn]_vars

---------------------------------------------------------------------------
(* Atomicity and the checks made first: what is asked of create and update *)

\* What another request can read: the committed rows.
Tables == <<agreements, products, tiers>>

ValidationErrors ==
    {"MissingAssociations", "DateRangeInvalid", "InvalidRange", "OverlappingTiers",
     "OverlappingAgreement"}

Failures == ValidationErrors \cup {"StorageError"}

\* A create or an update arrives in this step.
WriteArrives == Idle /\ request'.op \in {"create", "update"}

\* The body has neither a product nor a category.
NoAssociations(data) == data.products = <<>> /\ data.product_category_ids = <<>>

\* The agreements other than id are stored after the step as before it.
OthersUntouched(id) ==
    \A other \in Ids \ {id} :
        /\ other \in DOMAIN agreements' <=> other \in DOMAIN agreements
        /\ other \in DOMAIN agreements => agreements'[other] = agreements[other]
        /\ products'[other] = products[other]
        /\ tiers'[other] = tiers[other]

C12_UpdateFailsFast ==
    [][( /\ Idle
        /\ request'.op = "update"
        /\ request'.id \in DOMAIN agreements
        /\ \/ NoAssociations(request'.data)
           \/ validate_tier_ranges(request'.data.tiers, request'.data.basis) # "ok")
       => (/\ result' \in ValidationErrors
           /\ Tables' = Tables
           /\ session' = NoSession)]_vars

\* An update of an agreement stored with tiers was answered with a tier
\* error.
C12_Witness ==
    /\ request.op = "update"
    /\ result \in {"InvalidRange", "OverlappingTiers"}
    /\ request.id \in DOMAIN agreements
    /\ tiers[request.id] # <<>>

\* Every stored agreement has start_date < end_date.
DatesOrdered ==
    \A id \in DOMAIN agreements : agreements[id].start_date < agreements[id].end_date

\* C13 as stated: every stored agreement has start_date < end_date, and a
\* create or an update whose body has start_date >= end_date is answered
\* DateRangeInvalid and changes no stored row.
C13_DateRangeInvalidAnswered ==
    /\ []DatesOrdered
    /\ [][(WriteArrives /\ request'.data.start_date >= request'.data.end_date)
            => (result' = "DateRangeInvalid" /\ Tables' = Tables)]_vars

\* C13 amended: every stored agreement has start_date < end_date; a create
\* or an update whose body has start_date >= end_date is never accepted and
\* changes no stored row, and it is answered DateRangeInvalid when the body
\* names a product or a category and, for an update, the id is that of a
\* stored agreement.
C13_DateRangeNeverStored ==
    /\ []DatesOrdered
    /\ [][(WriteArrives /\ request'.data.start_date >= request'.data.end_date)
            => (/\ result' \in {"DateRangeInvalid", "MissingAssociations", "NotFound"}
                /\ Tables' = Tables
                /\ session' = NoSession
                /\ (/\ ~NoAssociations(request'.data)
                    /\ (request'.op = "update" => request'.id \in DOMAIN agreements))
                   => result' = "DateRangeInvalid")]_vars

\* An update of a stored agreement was answered DateRangeInvalid.
C13_Witness ==
    /\ request.op = "update"
    /\ result = "DateRangeInvalid"
    /\ request.id \in DOMAIN agreements
    /\ request.data.start_date = request.data.end_date

\* Every stored agreement has an association row.
Associated == \A id \in DOMAIN agreements : Len(products[id]) >= 1

---------------------------------------------------------------------------
(* Lookups, delete and the stored rows: what is asked of them *)

\* C15: get, update and delete of an id that names no stored agreement are
\* answered NotFound, a value and not a failure, whatever the body of the
\* update, and change no stored agreement, tier, association or claim.
C15_UnknownIdNotFound ==
    [][(/\ Idle
        /\ request'.op \in {"get", "update", "delete"}
        /\ request'.id \notin DOMAIN agreements)
       => (/\ result' = "NotFound"
           /\ result' \notin Failures
           /\ Tables' = Tables
           /\ claims' = claims
           /\ session' = NoSession)]_vars

\* An update of an unknown id with a body that fails the checks was answered
\* NotFound while an agreement and a claim are stored.
C15_Witness ==
    /\ request.op = "update"
    /\ result = "NotFound"
    /\ request.id \notin DOMAIN agreements
    /\ ValidateInput(request.data) # "ok"
    /\ agreements # <<>>
    /\ claims # {}

\* No tier row and no association row is kept for an id that is not stored,
\* and every tier row carries the id of the agreement it is kept for.
NoOrphans ==
    /\ \A id \in Ids \ DOMAIN agreements : products[id] = <<>> /\ tiers[id] = <<>>
    /\ \A id \in DOMAIN agreements : \A i \in 1..Len(tiers[id]) :
          tiers[id][i].rebate_agreement_id = id

\* C16: delete of a stored agreement answers ok, removes the agreement with
\* all its tiers and associations and changes no other agreement; and no
\* stored tier or association row is ever without its agreement.
C16_DeleteCascades ==
    /\ []NoOrphans
    /\ [][(Idle /\ request'.op = "delete" /\ request'.id \in DOMAIN agreements)
            => (/\ result' = "ok"
                /\ request'.id \notin DOMAIN agreements'
                /\ products'[request'.id] = <<>>
                /\ tiers'[request'.id] = <<>>
                /\ OthersUntouched(request'.id))]_vars

\* An agreement was deleted while another, stored with tiers, remains.
C16_Witness ==
    /\ request.op = "delete"
    /\ result = "ok"
    /\ \E other \in DOMAIN agreements : tiers[other] # <<>> /\ products[other] # <<>>

\* C17: a claim row, once stored, is stored in every later state, whatever
\* operation follows, the deletion of its agreement included.
C17_ClaimsKept == [][claims \subseteq claims']_vars

\* C18: every stored association row has exactly one of product_id and
\* category_id set.
C18_ExactlyOneSet ==
    \A id \in Ids : \A i \in 1..Len(products[id]) :
        (products[id][i].product_id # None) # (products[id][i].category_id # None)

\* An agreement is stored with a product row and a category row.
C18_Witness ==
    \E id \in DOMAIN agreements :
        /\ \E i \in 1..Len(products[id]) : products[id][i].product_id # None
        /\ \E i \in 1..Len(products[id]) : products[id][i].category_id # None

\* C19: the step that answers an update ok leaves the agreement, under the
\* same id and uuid, with the header of the body, with exactly the tiers of
\* the body (their bounds on its basis, in order) and with exactly one row
\* per product and per category of the body: nothing of the previous
\* version remains.
C19_UpdateReplacesWhole ==
    [][(request.op = "update" /\ result = "pending" /\ result' = "ok")
       => (/\ DOMAIN agreements' = DOMAIN agreements
           /\ agreements'[request.id].uuid = agreements[request.id].uuid
           /\ agreements'[request.id].start_date = request.data.start_date
           /\ agreements'[request.id].end_date = request.data.end_date
           /\ agreements'[request.id].basis = request.data.basis
           /\ Len(tiers'[request.id]) = Len(request.data.tiers)
           /\ \A i \in 1..Len(request.data.tiers) :
                 /\ FromVal(tiers'[request.id][i], request.data.basis)
                       = FromVal(request.data.tiers[i], request.data.basis)
                 /\ ToVal(tiers'[request.id][i], request.data.basis)
                       = ToVal(request.data.tiers[i], request.data.basis)
           /\ Len(products'[request.id]) =
                  Len(request.data.products) + Len(request.data.product_category_ids)
           /\ \A i \in 1..Len(request.data.products) :
                 products'[request.id][i].product_id = request.data.products[i]
           /\ \A i \in 1..Len(request.data.product_category_ids) :
                 products'[request.id][Len(request.data.products) + i].category_id
                    = request.data.product_category_ids[i])]_vars

\* An update was answered ok and the agreement is stored with the two tiers
\* of its body.
C19_Witness ==
    /\ request.op = "update"
    /\ result = "ok"
    /\ Len(request.data.tiers) = 2
    /\ Len(tiers[request.id]) = 2

\* C20: every stored tier has the pair that is not of the basis of its
\* agreement null, and carries the uuid of the agreement that owns it.
C20_UnusedPairNull ==
    \A id \in DOMAIN agreements : \A i \in 1..Len(tiers[id]) :
        /\ agreements[id].basis = "quantity"
              => (tiers[id][i].from_amount = None /\ tiers[id][i].to_amount = None)
        /\ agreements[id].basis = "amount"
              => (tiers[id][i].from_quantity = None /\ tiers[id][i].to_quantity = None)
        /\ tiers[id][i].rebate_agreement_uuid = agreements[id].uuid

\* A request whose tier carried a value in the pair not of the basis and a
\* uuid of its own was answered ok and the tier is stored.
C20_Witness ==
    /\ request.op \in {"create", "update"}
    /\ result = "ok"
    /\ request.data.tiers # <<>>
    /\ request.data.basis = "amount"
    /\ request.data.tiers[1].from_quantity # None
    /\ request.data.tiers[1].rebate_agreement_uuid = ForeignUuid
    /\ tiers[request.id] # <<>>

---------------------------------------------------------------------------
(* storage.py: _build_rebate_agreement_response, the read model *)

\* float(x) if x else None
FloatOrNone(x) == IF Truthy(x) THEN x ELSE None

\* RebateTierRead(...) of a stored tier.
TierRead(tier) ==
    [agreement_id |-> tier.rebate_agreement_id,
     rebate_agreement_uuid |-> tier.rebate_agreement_uuid,
     from_quantity |-> FloatOrNone(tier.from_quantity),
     to_quantity |-> FloatOrNone(tier.to_quantity),
     from_amount |-> FloatOrNone(tier.from_amount),
     to_amount |-> FloatOrNone(tier.to_amount)]

\* The product ids, and the category ids, appended in the loop over
\* agreement.products.
ReadProductIds(id) ==
    LET rows == SelectSeq(products[id], LAMBDA r : Truthy(r.product_id))
    IN  [i \in 1..Len(rows) |-> rows[i].product_id]
ReadCategoryIds(id) ==
    LET rows == SelectSeq(products[id], LAMBDA r : Truthy(r.category_id))
    IN  [i \in 1..Len(rows) |-> rows[i].category_id]

\* RebateAgreementRead(...) of the stored agreement id: what create, update
\* and get return.
build_rebate_agreement_response(id) ==
    [id |-> id,
     agreement_type |-> agreements[id].agreement_type,
     distributor_id |-> agreements[id].party_id,
     start_date |-> agreements[id].start_date,
     end_date |-> agreements[id].end_date,
     basis |-> agreements[id].basis,
     products |-> ReadProductIds(id),
     product_category_ids |-> ReadCategoryIds(id),
     tiers |-> [i \in 1..Len(tiers[id]) |-> TierRead(tiers[id][i])],
     status |-> agreements[id].status]

\* C21: the agreement returned by an accepted create lists the product ids
\* and the category ids of the body and one tier per tier of the body with its
\* lower and upper bound on the basis, a lower bound of 0 included; and the
\* agreement returned by a get has the bounds of the stored tiers.
C21_ReadModelRoundTrip ==
    /\ (request.op = "create" /\ result = "ok") =>
          LET r == build_rebate_agreement_response(request.id)
              data == request.data
          IN  /\ r.products = data.products
              /\ r.product_category_ids = data.product_category_ids
              /\ Len(r.tiers) = Len(data.tiers)
              /\ \A i \in 1..Len(data.tiers) :
                    /\ FromVal(r.tiers[i], data.basis) = FromVal(data.tiers[i], data.basis)
                    /\ ToVal(r.tiers[i], data.basis) = ToVal(data.tiers[i], data.basis)
    /\ (request.op = "get" /\ result = "ok") =>
          LET r == build_rebate_agreement_response(request.id)
          IN  /\ Len(r.tiers) = Len(tiers[request.id])
              /\ \A i \in 1..Len(r.tiers) :
                    /\ FromVal(r.tiers[i], r.basis) = StoredFrom(request.id, i)
                    /\ ToVal(r.tiers[i], r.basis) = StoredTo(request.id, i)

---------------------------------------------------------------------------
(* create_rebate_agreement called side by side: each call has a session of  *)
(* its own and reads the rows committed when its select runs                *)

MaxCallers == 2     \* calls running side by side

Callers == 1..MaxCallers

\* The bodies of these calls: one type, every party, a few date ranges (one
\* of them empty) and one product.
RaceInputs ==
    [agreement_type : {"vendor"}, distributor_id : Parties,
     start_date : {1, 2}, end_date : {2, 3}, basis : {"quantity"},
     products : {<<1>>, <<2>>}, product_category_ids : {<<>>}, tiers : {<<>>}]

NoCall == [pc |-> "idle", data |-> NoData, id |-> 0, seen |-> {}, result |-> "none"]

InitRace ==
    /\ agreements = <<>>
    /\ products = [id \in 1..MaxId |-> <<>>]
    /\ tiers = [id \in 1..MaxId |-> <<>>]
    /\ nextId = 1
    /\ request = [op |-> "none", id |-> 0, data |-> NoData]
    /\ result = "none"
    /\ claims = {}
    /\ session = NoSession
    /\ calls = [c \in Callers |-> NoCall]
    /\ classes = <<>>
    /\ now = 0

\* create_rebate_agreement of caller c up to session.flush() and the loops
\* that add rows: the checks read the committed rows; seen is the list the
\* select of the conflict check returned; the rows are written in the
\* transaction of c.
CallCreate(c, data) ==
    /\ calls[c].pc = "idle"
    /\ nextId <= MaxId
    /\ LET raised == CreateOutcome(data)
       IN  IF raised # "ok"
           THEN /\ calls' = [calls EXCEPT ![c] =
                                [pc |-> "done", data |-> data, id |-> 0,
                                 seen |-> ExistingAgreements(data), result |-> raised]]
                /\ UNCHANGED nextId
           ELSE /\ calls' = [calls EXCEPT ![c] =
                                [pc |-> "written", data |-> data, id |-> nextId,
                                 seen |-> ExistingAgreements(data), result |-> "pending"]]
                /\ nextId' = nextId + 1
    /\ UNCHANGED <<agreements, products, tiers, request, result, claims, session,
                   classes, now>>

\* session.commit() of caller c: its rows become the stored rows.
CallCommit(c) ==
    /\ calls[c].pc = "written"
    /\ agreements' = (calls[c].id :> AgreementRow(calls[c].id, calls[c].data))
                         @@ agreements
    /\ products' = [products EXCEPT ![calls[c].id] = AssociationRows(calls[c].data)]
    /\ tiers' = [tiers EXCEPT ![calls[c].id] =
                    TierRows(calls[c].data, calls[c].id, NewUuid(calls[c].id))]
    /\ calls' = [calls EXCEPT ![c].pc = "done", ![c].result = "ok"]
    /\ UNCHANGED <<nextId, request, result, claims, session, classes, now>>

\* The response of caller c goes back.
CallReturn(c) ==
    /\ calls[c].pc = "done"
    /\ calls' = [calls EXCEPT ![c] = NoCall]
    /\ UNCHANGED <<agreements, products, tiers, nextId, request, result, claims,
                   session, classes, now>>

NextRace ==
    \/ \E c \in Callers : \E data \in RaceInputs : CallCreate(c, data)
    \/ \E c \in Callers : CallCommit(c)
    \/ \E c \in Callers : CallReturn(c)

SpecRace == InitRace /\ [][NextRace]_vars

\* The stored agreement id conflicts with the body: a rival that shares a
\* product id or a category id with it.
Conflicts(data, id) ==
    /\ Rival(data, id)
    /\ \/ SeqToSet(data.products) \cap StoredProductIds(id) # {}
       \/ SeqToSet(data.product_category_ids) \cap StoredCategoryIds(id) # {}

---------------------------------------------------------------------------
(* The claim calculator and the claim lifecycle over rebate_claims:         *)
(* CalculateClaim and AdvanceClaim for the products of one stored agreement *)

MaxAccumulated == 3   \* accumulated quantity of a period 0..MaxAccumulated
MaxRebate == 2        \* rebate_value 1..MaxRebate
MaxNow == 2           \* the clock reads 0..MaxNow

\* rebate_units and claim_statuses, the latter in the order of the lifecycle.
RebateUnits == {"percentage", "per_unit", "fixed"}
ClaimStatuses == <<"To Calculate", "Pending", "Approved", "Paid">>

StatusRank(s) == CHOOSE i \in 1..Len(ClaimStatuses) : ClaimStatuses[i] = s

\* Numeric amounts are held in hundredths.
Scale == 100

\* rebate_tiers rows of a quantity-based agreement with their rebate.
ClaimTiers ==
    [from_quantity : 0..MaxVal, to_quantity : (1..MaxVal) \cup {None},
     from_amount : {None}, to_amount : {None},
     rebate_value : 1..MaxRebate, rebate_unit : RebateUnits]

\* The tier lists an agreement is stored with: each range proper, the ranges
\* in ascending order without overlap, only the last one open-ended.
ClaimTierLists ==
    {ts \in SeqsUpTo(ClaimTiers, MaxTiers) :
        /\ Len(ts) >= 1
        /\ \A i \in 1..Len(ts) :
              ts[i].to_quantity # None => ts[i].from_quantity < ts[i].to_quantity
        /\ \A i \in 1..(Len(ts) - 1) :
              /\ ts[i].to_quantity # None
              /\ ts[i].to_quantity <= ts[i + 1].from_quantity}

ClaimHeader ==
    [agreement_type |-> "vendor", distributor_id |-> 1, start_date |-> 1,
     end_date |-> 2, basis |-> "quantity", products |-> <<1>>,
     product_category_ids |-> <<>>, tiers |-> <<>>]

InitClaims ==
    /\ \E r \in RebateUnits :
          agreements = (1 :> (AgreementRow(1, ClaimHeader) @@ [rate_type |-> r]))
    /\ products = [id \in 1..MaxId |-> IF id = 1 THEN AssociationRows(ClaimHeader)
                                       ELSE <<>>]
    /\ \E ts \in ClaimTierLists :
          tiers = [id \in 1..MaxId |-> IF id = 1 THEN ts ELSE <<>>]
    /\ nextId = 2
    /\ request = [op |-> "none", id |-> 0, data |-> NoData]
    /\ result = "none"
    /\ claims = {}
    /\ session = NoSession
    /\ calls = <<>>
    /\ classes = <<>>
    /\ now = 0

\* The range of a tier contains the accumulated value: lower bound
\* inclusive, upper bound exclusive, no upper bound when the tier is
\* open-ended.
TierContains_InclusiveUpper(tier, accumulated) ==
    /\ tier.from_quantity <= accumulated
    /\ (tier.to_quantity = None \/ accumulated <= tier.to_quantity)

TierContains(tier, accumulated) ==
    /\ tier.from_quantity <= accumulated
    /\ (tier.to_quantity = None \/ accumulated < tier.to_quantity)

\* The index of the tier selected for the accumulated value, 0 when no tier
\* contains it.
select_tier(ts, accumulated) ==
    IF \E i \in 1..Len(ts) : TierContains(ts[i], accumulated)
    THEN CHOOSE i \in 1..Len(ts) :
            /\ TierContains(ts[i], accumulated)
            /\ \A j \in 1..(i - 1) : ~TierContains(ts[j], accumulated)
    ELSE 0

\* rebate_amount of a matched tier, in hundredths.
rebate_amount_ByRateType(agreement, tier, accumulated) ==
    CASE agreement.rate_type = "percentage" -> (accumulated * tier.rebate_value * Scale) \div 100
      [] agreement.rate_type = "per_unit" -> accumulated * tier.rebate_value * Scale
      [] agreement.rate_type = "fixed" -> tier.rebate_value * Scale

rebate_amount(agreement, tier, accumulated) ==
    CASE tier.rebate_unit = "percentage" -> (accumulated * tier.rebate_value * Scale) \div 100
      [] tier.rebate_unit = "per_unit" -> accumulated * tier.rebate_value * Scale
      [] tier.rebate_unit = "fixed" -> tier.rebate_value * Scale

\* The claims of a product under an agreement (at most one: one period).
ClaimsOf(id, product_id) ==
    {c \in claims : c.rebate_agreement_id = id /\ c.product_id = product_id}

\* CalculateClaim: a locked claim is refused; without a matching tier no
\* claim is produced; else the claim is created in To Calculate, or the
\* claim awaiting approval is recomputed and is Pending.
CalculateClaim_Overwrite(id, product_id, accumulated) ==
    /\ Idle
    /\ id \in DOMAIN agreements
    /\ request' = [op |-> "calculate", id |-> id,
                   data |-> [product_id |-> product_id, accumulated |-> accumulated]]
    /\ LET old == ClaimsOf(id, product_id)
           i == select_tier(tiers[id], accumulated)
       IN  IF i = 0
           THEN /\ result' = "NoTierMatched"
                /\ UNCHANGED claims
           ELSE /\ result' = "ok"
                /\ claims' = (claims \ old) \cup
                      {[rebate_agreement_id |-> id, product_id |-> product_id,
                        quantity_accumulated |-> accumulated,
                        rebate_amount |-> rebate_amount(agreements[id], tiers[id][i],
                                                        accumulated),
                        status |-> IF old = {} THEN "To Calculate"
                                   ELSE (CHOOSE c \in old : TRUE).status,
                        calculation_date |-> now]}
    /\ UNCHANGED <<agreements, products, tiers, nextId, session, calls, classes, now>>

CalculateClaim(id, product_id, accumulated) ==
    /\ Idle
    /\ id \in DOMAIN agreements
    /\ request' = [op |-> "calculate", id |-> id,
                   data |-> [product_id |-> product_id, accumulated |-> accumulated]]
    /\ LET old == ClaimsOf(id, product_id)
           i == select_tier(tiers[id], accumulated)
       IN  IF \E c \in old : c.status \in {"Approved", "Paid"}
           THEN /\ result' = "ClaimLocked"
                /\ UNCHANGED claims
           ELSE IF i = 0
           THEN /\ result' = "NoTierMatched"
                /\ UNCHANGED claims
           ELSE /\ result' = "ok"
                /\ claims' = (claims \ old) \cup
                      {[rebate_agreement_id |-> id, product_id |-> product_id,
                        quantity_accumulated |-> accumulated,
                        rebate_amount |-> rebate_amount(agreements[id], tiers[id][i],
                                                        accumulated),
                        status |-> IF old = {} THEN "To Calculate" ELSE "Pending",
                        calculation_date |-> now]}
    /\ UNCHANGED <<agreements, products, tiers, nextId, session, calls, classes, now>>

\* AdvanceClaim: the claim moves to the target status when that is the next
\* status of the lifecycle; every other target is an InvalidTransition.
AdvanceClaim_AnyForward(id, product_id, target_status) ==
    /\ Idle
    /\ ClaimsOf(id, product_id) # {}
    /\ request' = [op |-> "advance", id |-> id,
                   data |-> [product_id |-> product_id,
                             target_status |-> target_status]]
    /\ LET c == CHOOSE c \in ClaimsOf(id, product_id) : TRUE
       IN  IF StatusRank(target_status) > StatusRank(c.status)
           THEN /\ result' = "ok"
                /\ claims' = (claims \ {c}) \cup {[c EXCEPT !.status = target_status]}
           ELSE /\ result' = "InvalidTransition"
                /\ UNCHANGED claims
    /\ UNCHANGED <<agreements, products, tiers, nextId, session, calls, classes, now>>

AdvanceClaim(id, product_id, target_status) ==
    /\ Idle
    /\ ClaimsOf(id, product_id) # {}
    /\ request' = [op |-> "advance", id |-> id,
                   data |-> [product_id |-> product_id,
                             target_status |-> target_status]]
    /\ LET c == CHOOSE c \in ClaimsOf(id, product_id) : TRUE
       IN  IF StatusRank(target_status) = StatusRank(c.status) + 1
           THEN /\ result' = "ok"
                /\ claims' = (claims \ {c}) \cup {[c EXCEPT !.status = target_status]}
           ELSE /\ result' = "InvalidTransition"
                /\ UNCHANGED claims
    /\ UNCHANGED <<agreements, products, tiers, nextId, session, calls, classes, now>>

\* Time passes.
Tick ==
    /\ now < MaxNow
    /\ now' = now + 1
    /\ UNCHANGED <<agreements, products, tiers, nextId, request, result, claims,
                   session, calls, classes>>

NextClaims ==
    \/ \E id \in Ids : \E p \in 1..MaxTxnProduct : \E a \in 0..MaxAccumulated :
          CalculateClaim(id, p, a)
    \/ \E id \in Ids : \E p \in 1..MaxTxnProduct :
          \E s \in {ClaimStatuses[i] : i \in 1..Len(ClaimStatuses)} :
             AdvanceClaim(id, p, s)
    \/ Tick
    \/ Return

SpecClaims == InitClaims /\ [][NextClaims]_vars

\* A CalculateClaim request arrives / an AdvanceClaim request arrives.
CalculateArrives == Idle /\ request'.op = "calculate"
AdvanceArrives == Idle /\ request'.op = "advance"

\* The claim the request in hand is about, before and after the step.
ClaimBefore == ClaimsOf(request'.id, request'.data.product_id)
ClaimAfter ==
    {c \in claims' : /\ c.rebate_agreement_id = request'.id
                     /\ c.product_id = request'.data.product_id}

\* C23: CalculateClaim selects the tier whose range contains the accumulated
\* value, lower bound inclusive and upper bound exclusive, an open-ended
\* tier taking every value from its lower bound on; when no tier contains
\* the value the outcome is NoTierMatched and no claim is produced or
\* changed.
C23_TierSelection ==
    [][CalculateArrives =>
          LET acc == request'.data.accumulated
              ts == tiers[request'.id]
              hit == {i \in 1..Len(ts) :
                         /\ ts[i].from_quantity <= acc
                         /\ (ts[i].to_quantity = None \/ acc < ts[i].to_quantity)}
          IN  /\ (result' = "NoTierMatched") => (hit = {} /\ claims' = claims)
              /\ (result' = "ok") =>
                    \E i \in hit : \A c \in ClaimAfter :
                        c.rebate_amount =
                            rebate_amount(agreements[request'.id], ts[i], acc)
              /\ (hit = {}) => (result' \in {"NoTierMatched", "ClaimLocked"})
              /\ (hit = {}) => (claims' = claims)
              /\ (result' = "ok") => (ClaimAfter # {})]_vars

\* A claim was calculated for a value that is the upper bound of one tier and
\* the lower bound of the next.
C23_Witness ==
    /\ request.op = "calculate"
    /\ result = "ok"
    /\ \E i \in 1..Len(tiers[1]) : \E j \in 1..Len(tiers[1]) :
          /\ tiers[1][i].to_quantity = request.data.accumulated
          /\ tiers[1][j].from_quantity = request.data.accumulated
          /\ tiers[1][i].rebate_value # tiers[1][j].rebate_value
    /\ \E c \in claims : c.quantity_accumulated = request.data.accumulated

\* C24: the rebate_amount of a claim (in hundredths) is accumulated *
\* rebate_value / 100 for a percentage tier, accumulated * rebate_value for a
\* per_unit tier and rebate_value for a fixed tier, by the rebate_unit of the
\* tier containing the accumulated value; a recalculation with the
\* accumulated value the claim holds leaves its rebate_amount as it was.
C24_RebateAmount ==
    /\ [](\A c \in claims :
            \E i \in 1..Len(tiers[c.rebate_agreement_id]) :
                LET t == tiers[c.rebate_agreement_id][i]
                IN  /\ t.from_quantity <= c.quantity_accumulated
                    /\ (t.to_quantity = None \/ c.quantity_accumulated < t.to_quantity)
                    /\ (t.rebate_unit = "percentage") =>
                          (c.rebate_amount * 100 =
                              c.quantity_accumulated * t.rebate_value * Scale)
                    /\ (t.rebate_unit = "per_unit") =>
                          (c.rebate_amount =
                              c.quantity_accumulated * t.rebate_value * Scale)
                    /\ (t.rebate_unit = "fixed") =>
                          (c.rebate_amount = t.rebate_value * Scale))
    /\ [][(CalculateArrives /\ result' = "ok") =>
             \A c \in ClaimBefore : \A d \in ClaimAfter :
                (c.quantity_accumulated = d.quantity_accumulated)
                => (c.rebate_amount = d.rebate_amount)]_vars

\* A claim was recalculated with the value it held, under a tier whose
\* rebate_unit is not the rate_type of the agreement.
C24_Witness ==
    /\ request.op = "calculate"
    /\ result = "ok"
    /\ \E c \in claims :
          /\ c.status = "Pending"
          /\ c.quantity_accumulated = request.data.accumulated
          /\ c.quantity_accumulated > 1
          /\ \E i \in 1..Len(tiers[1]) :
                /\ TierContains(tiers[1][i], c.quantity_accumulated)
                /\ tiers[1][i].rebate_unit = "per_unit"
                /\ agreements[1].rate_type = "percentage"

\* C25: the status of a claim only moves forward along To Calculate,
\* Pending, Approved, Paid, one step at a time: a new claim is in To
\* Calculate, no claim is removed, and AdvanceClaim moves the claim exactly
\* when the target is the status after its own, any other target being
\* answered InvalidTransition with the claims left as they were.
C25_StatusForwardOnly ==
    [][/\ \A d \in claims' :
             (\A c \in claims : ~(/\ c.rebate_agreement_id = d.rebate_agreement_id
                                  /\ c.product_id = d.product_id))
             => (d.status = "To Calculate")
       /\ \A c \in claims :
             \E d \in claims' :
                /\ d.rebate_agreement_id = c.rebate_agreement_id
                /\ d.product_id = c.product_id
                /\ \/ d.status = c.status
                   \/ (c.status = "To Calculate" /\ d.status = "Pending")
                   \/ (c.status = "Pending" /\ d.status = "Approved")
                   \/ (c.status = "Approved" /\ d.status = "Paid")
       /\ AdvanceArrives =>
             \A c \in ClaimBefore :
                LET target == request'.data.target_status
                    next == \/ (c.status = "To Calculate" /\ target = "Pending")
                            \/ (c.status = "Pending" /\ target = "Approved")
                            \/ (c.status = "Approved" /\ target = "Paid")
                IN  /\ next => (/\ result' = "ok"
                                /\ \A d \in ClaimAfter : d.status = target)
                    /\ (~next) => (/\ result' = "InvalidTransition"
                                   /\ claims' = claims)]_vars

\* AdvanceClaim was asked to move a Pending claim to Paid and answered
\* InvalidTransition.
C25_Witness ==
    /\ request.op = "advance"
    /\ result = "InvalidTransition"
    /\ request.data.target_status = "Paid"
    /\ \E c \in claims : c.status = "Pending"

\* C26: CalculateClaim on a claim that is Approved or Paid is answered
\* ClaimLocked and leaves its rebate_amount, status and calculation_date as
\* they were; the rebate_amount of a claim is overwritten only while the
\* claim is in To Calculate or Pending.
C26_ClaimLocked ==
    [][/\ CalculateArrives =>
             \A c \in ClaimBefore :
                (c.status \in {"Approved", "Paid"})
                => (/\ result' = "ClaimLocked"
                    /\ \A d \in ClaimAfter :
                          /\ d.rebate_amount = c.rebate_amount
                          /\ d.status = c.status
                          /\ d.calculation_date = c.calculation_date)
       /\ \A c \in claims : \A d \in claims' :
             (/\ d.rebate_agreement_id = c.rebate_agreement_id
              /\ d.product_id = c.product_id
              /\ d.rebate_amount # c.rebate_amount)
             => (c.status \in {"To Calculate", "Pending"})]_vars

\* CalculateClaim was answered ClaimLocked for a Paid claim, later than its
\* calculation and with a value under which its rebate_amount would differ.
C26_Witness ==
    /\ request.op = "calculate"
    /\ result = "ClaimLocked"
    /\ \E c \in claims :
          /\ c.status = "Paid"
          /\ c.calculation_date < now
          /\ select_tier(tiers[1], request.data.accumulated) # 0
          /\ c.rebate_amount #
                rebate_amount(agreements[1],
                              tiers[1][select_tier(tiers[1], request.data.accumulated)],
                              request.data.accumulated)

---------------------------------------------------------------------------
(* ctc_storage.py and routes/ctc.py: the CTC classes (ctc_classes)          *)

MaxClasses == 2     \* classes ever created in one run
MaxCode == 2        \* codes 1..MaxCode
MaxName == 2        \* names 1..MaxName

\* The ids a request names: those the sequence can give, and one beyond.
ClassIds == 1..(MaxClasses + 1)

\* CTCClassCreate: code and name (store and the *_by fields are copied
\* through); active defaults to True.
CTCClassCreate == [code : 1..MaxCode, name : 1..MaxName, active : {1}]

\* CTCClassUpdate: every field optional; active is None, 0 (False) or 1.
CTCClassUpdate ==
    [code : (1..MaxCode) \cup {None}, name : (1..MaxName) \cup {None},
     active : {None, 0, 1}]

InitCtc ==
    /\ agreements = <<>>
    /\ products = [id \in 1..MaxId |-> <<>>]
    /\ tiers = [id \in 1..MaxId |-> <<>>]
    /\ nextId = 1
    /\ request = [op |-> "none", id |-> 0, data |-> NoData]
    /\ result = "none"
    /\ claims = {}
    /\ session = NoSession
    /\ calls = <<>>
    /\ classes = [next_id |-> 1, rows |-> <<>>]
    /\ now = 0

\* The unique constraint on ctc_classes.code: another row holds the code.
CodeTaken(code, id) ==
    \E other \in DOMAIN classes.rows : other # id /\ classes.rows[other].code = code

\* GET /ctc/classes/{class_id}: get_class_by_id selects the row by id alone.
get_class_by_id(class_id) ==
    /\ Idle
    /\ request' = [op |-> "get_class", id |-> class_id, data |-> NoData]
    /\ result' = IF class_id \in DOMAIN classes.rows THEN "200" ELSE "404"
    /\ UNCHANGED <<agreements, products, tiers, nextId, claims, session, calls,
                   classes, now>>

\* POST /ctc/classes: the row is inserted with the next id; a code already
\* stored fails the insert and the route answers 500.
create_class(data) ==
    /\ Idle
    /\ classes.next_id <= MaxClasses
    /\ request' = [op |-> "create_class", id |-> classes.next_id, data |-> data]
    /\ IF CodeTaken(data.code, 0)
       THEN /\ result' = "500"
            /\ classes' = [classes EXCEPT !.next_id = @ + 1]
       ELSE /\ result' = "200"
            /\ classes' = [next_id |-> classes.next_id + 1,
                           rows |-> (classes.next_id :>
                                        [code |-> data.code, name |-> data.name,
                                         active |-> (data.active = 1),
                                         deleted |-> None, deleted_by |-> None])
                                    @@ classes.rows]
    /\ UNCHANGED <<agreements, products, tiers, nextId, claims, session, calls, now>>

\* The row after setattr for every key of the body that is not None.
Updated(row, data) ==
    [row EXCEPT !.code = IF data.code # None THEN data.code ELSE @,
                !.name = IF data.name # None THEN data.name ELSE @,
                !.active = IF data.active # None THEN (data.active = 1) ELSE @]

\* PUT /ctc/classes/{class_id}: 404 when session.get finds no row; else the
\* fields given are set and committed.
update_class_Unchecked(class_id, data) ==
    /\ Idle
    /\ request' = [op |-> "update_class", id |-> class_id, data |-> data]
    /\ IF class_id \notin DOMAIN classes.rows
       THEN /\ result' = "500"
            /\ UNCHANGED classes
       ELSE IF data.code # None /\ CodeTaken(data.code, class_id)
       THEN /\ result' = "500"
            /\ UNCHANGED classes
       ELSE /\ result' = "200"
            /\ classes' = [classes EXCEPT
                              !.rows[class_id] = Updated(classes.rows[class_id], data)]
    /\ UNCHANGED <<agreements, products, tiers, nextId, claims, session, calls, now>>

update_class(class_id, data) ==
    /\ Idle
    /\ request' = [op |-> "update_class", id |-> class_id, data |-> data]
    /\ IF class_id \notin DOMAIN classes.rows
       THEN /\ result' = "404"
            /\ UNCHANGED classes
       ELSE IF data.code # None /\ CodeTaken(data.code, class_id)
       THEN /\ result' = "500"
            /\ UNCHANGED classes
       ELSE /\ result' = "200"
            /\ classes' = [classes EXCEPT
                              !.rows[class_id] = Updated(classes.rows[class_id], data)]
    /\ UNCHANGED <<agreements, products, tiers, nextId, claims, session, calls, now>>

\* DELETE /ctc/classes/{class_id}: 404 when session.get finds no row; a soft
\* delete marks the row inactive and deleted, else the row is removed.
delete_class(class_id, soft_delete) ==
    /\ Idle
    /\ request' = [op |-> "delete_class", id |-> class_id,
                   data |-> [soft_delete |-> soft_delete]]
    /\ IF class_id \notin DOMAIN classes.rows
       THEN /\ result' = "404"
            /\ UNCHANGED classes
       ELSE /\ result' = "200"
            /\ classes' =
                  IF soft_delete
                  THEN [classes EXCEPT !.rows[class_id] =
                           [@ EXCEPT !.active = FALSE, !.deleted = now,
                                     !.deleted_by = "system"]]
                  ELSE [classes EXCEPT !.rows =
                           [id \in (DOMAIN classes.rows) \ {class_id} |->
                               classes.rows[id]]]
    /\ UNCHANGED <<agreements, products, tiers, nextId, claims, session, calls, now>>

NextCtc ==
    \/ \E id \in ClassIds : get_class_by_id(id)
    \/ \E data \in CTCClassCreate : create_class(data)
    \/ \E id \in ClassIds : \E data \in CTCClassUpdate : update_class(id, data)
    \/ \E id \in ClassIds : \E soft_delete \in BOOLEAN : delete_class(id, soft_delete)
    \/ Tick
    \/ Return

SpecCtc == InitCtc /\ [][NextCtc]_vars

\* C27: after a class was deleted with the default soft delete, getting it
\* by its id is answered 404.
C27_SoftDeletedNotFound ==
    [][(/\ Idle
        /\ request'.op = "get_class"
        /\ request'.id \in DOMAIN classes.rows
        /\ classes.rows[request'.id].deleted # None)
       => (result' = "404")]_vars

\* C28: get, update and delete of an id no class has are each answered 404,
\* and no class is created, changed or removed.
C28_UnknownClassNotFound ==
    [][(/\ Idle
        /\ request'.op \in {"get_class", "update_class", "delete_class"}
        /\ request'.id \notin DOMAIN classes.rows)
       => (/\ result' = "404"
           /\ classes' = classes)]_vars

\* An update naming the id of a class that was removed was answered 404
\* while another class is stored.
C28_Witness ==
    /\ request.op = "update_class"
    /\ request.id < classes.next_id
    /\ request.id \notin DOMAIN classes.rows
    /\ request.data.name # None
    /\ classes.rows # <<>>
    /\ result = "404"

---------------------------------------------------------------------------
(* _validate_tier_ranges: the order of the list and the pair it reads *)

\* The orders of 1..n.
Orders(n) ==
    {p \in [1..n -> 1..n] : \A i \in 1..n : \A j \in 1..n : i # j => p[i] # p[j]}

\* ts in the order p.
Reordered(ts, p) == [i \in 1..Len(ts) |-> ts[p[i]]]

\* ts with the pair the basis does not use set to None in every tier.
UnusedPairNull(ts, basis) ==
    [i \in 1..Len(ts) |->
        IF basis = "quantity"
        THEN [ts[i] EXCEPT !.from_amount = None, !.to_amount = None]
        ELSE [ts[i] EXCEPT !.from_quantity = None, !.to_quantity = None]]

\* C29: validate_tiers accepts a tier list in one order exactly when it
\* accepts it in every other order.
C29_OrderIndependent ==
    Validated =>
        \A p \in Orders(Len(VTiers)) :
            (validate_tier_ranges(Reordered(VTiers, p), VBasis) = "ok")
                <=> (result = "ok")

\* C30: validate_tiers reads only the pair of the basis: a tier list is
\* accepted exactly when the list with the other pair set to None in every
\* tier is accepted.
C30_BasisPairOnly ==
    Validated =>
        ((validate_tier_ranges(UnusedPairNull(VTiers, VBasis), VBasis) = "ok")
            <=> (result = "ok"))

=============================================================================
